---- MODULE Spec2Model ----
(***************************************************************************)
(* Model of libopkg/opkg_download_curl.c: the stamp store                  *)
(* (create_file_stamp, check_file_stamp), the cache validator              *)
(* (opkg_validate_cached_file) and the download entry point                *)
(* (opkg_download_backend) working on one cache path, one stamp file and   *)
(* the process-wide curl handle, and the header callback (header_write).   *)
(*                                                                         *)
(* Strings are sequences of bytes; a byte is a natural number, 0 is the    *)
(* C string terminator.  A C string in memory is its bytes, the            *)
(* terminator, and then whatever bytes follow it in the allocation         *)
(* (the "tail"), which the program never initialises.                      *)
(*                                                                         *)
(* The environment: fopen, fread, the metadata request, the body transfer  *)
(* and the creation of the handle may fail, as the code provides for;      *)
(* unlink and fwrite, whose results the code ignores, succeed.             *)
(***************************************************************************)
EXTENDS Integers, Sequences, FiniteSets, TLC

\* ------------------------------------------------------------------ bounds

\* longest string of the stamp-store specification
MaxStampLen == 21
\* bytes 1..NumChars are the characters strings are made of
NumChars == 2
\* largest remote size, in bytes
MaxSize == 2
\* number of versions of the remote resource
NumVersions == 3
\* longest value part of a header line
MaxValueLen == 3

\* ------------------------------------------------------- program constants

\* #define STAMP_BUF_SIZE 10
STAMP_BUF_SIZE == 10

\* ------------------------------------------------------------- C strings

Min(a, b) == IF a < b THEN a ELSE b

\* n bytes 1, with byte p (if any) replaced by c
Str(n, p, c) == [i \in 1..n |-> IF i = p THEN c ELSE 1]

\* the strings of the stamp-store specification: every length 0..MaxStampLen,
\* differing in the first or in the last byte
TestStrings ==
    UNION { { Str(n, p, c) : p \in {1, n}, c \in 1..NumChars } :
            n \in 0..MaxStampLen }

\* what may follow a string's terminator in its allocation: STAMP_BUF_SIZE
\* bytes that are all zero, all non-zero, or mixed
Tails ==
    { [i \in 1..STAMP_BUF_SIZE |-> 0],
      [i \in 1..STAMP_BUF_SIZE |-> 1],
      [i \in 1..STAMP_BUF_SIZE |-> i % 2] }

\* the memory a char* to string s points into: s, its terminator, the tail
Mem(s, tail) == s \o <<0>> \o tail

\* the byte at 1-based index i; memory beyond the modelled tail reads as 0
MemAt(mem, i) == IF i \in 1..Len(mem) THEN mem[i] ELSE 0

\* strlen(mem + p - 1)
RECURSIVE Strlen(_, _)
Strlen(mem, p) == IF MemAt(mem, p) = 0 THEN 0 ELSE 1 + Strlen(mem, p + 1)

\* memcmp(buf, mem + p - 1, size) != 0
Memcmp(buf, mem, p, size) ==
    \E i \in 1..size : buf[i] # MemAt(mem, p + i - 1)

\* ----------------------------------------------------------- file system

NoFile == [exists |-> FALSE, content |-> <<>>]
File(c) == [exists |-> TRUE, content |-> c]

\* a read error of the stamp file: fread call number blk (0: no error)
\* delivers only got bytes and sets the stream's error flag
NoReadError == [blk |-> 0, got |-> 0]

\* size = fread(stamp_buf, 1, STAMP_BUF_SIZE, file) as call number n, with
\* fpos bytes of content already consumed
Fread(content, fpos, n, rd) ==
    LET avail == Len(content) - fpos
        full  == Min(STAMP_BUF_SIZE, avail)
    IN  IF rd.blk # 0 /\ n = rd.blk THEN Min(rd.got, full)
        ELSE IF rd.blk # 0 /\ n > rd.blk THEN 0
        ELSE full

\* ferror(file) after fread call number n
Ferror(n, rd) == rd.blk # 0 /\ n >= rd.blk

\* ------------------------------------------------------------ stamp store

\* create_file_stamp writing the terminator as well (strlen(stamp) + 1 bytes)
create_file_stamp_Terminated(stampFile, mem, openOK) ==
    IF ~openOK
    THEN [ret |-> -1, file |-> stampFile, open |-> 0, errs |-> 1]
    ELSE [ret |-> 0,
          file |-> File([i \in 1..(Strlen(mem, 1) + 1) |-> MemAt(mem, i)]),
          open |-> 0, errs |-> 0]

\* create_file_stamp(file_name, stamp): fopen "wb" truncates, fwrite writes
\* strlen(stamp) bytes; returns 0, or -1 when the file cannot be opened.
\* open is the number of handles the function leaves open (the fclose
\* follows the fwrite), errs the number of ERROR lines it logs.
create_file_stamp(stampFile, mem, openOK) ==
    IF ~openOK
    THEN [ret |-> -1, file |-> stampFile, open |-> 0, errs |-> 1]
    ELSE [ret |-> 0,
          file |-> File([i \in 1..Strlen(mem, 1) |-> MemAt(mem, i)]),
          open |-> 0, errs |-> 0]

\* one evaluation of the diff expression of the loop body
StampDiff(buf, size, mem, p) ==
    IF \/ (size < STAMP_BUF_SIZE /\ size # Strlen(mem, p))
       \/ (size = STAMP_BUF_SIZE /\ Strlen(mem, p) < STAMP_BUF_SIZE)
       \/ Memcmp(buf, mem, p, size)
    THEN 1 ELSE 0

\* the while (*stamp) loop of check_file_stamp: stamp points at mem[p], fpos
\* bytes of the file are consumed, n - 1 iterations are done.  The result
\* records diff, the number of iterations and the largest index of mem the
\* loop condition read; the file is open when the loop is left (open = 1),
\* and the exit on a read error logs one ERROR line.
RECURSIVE StampLoop(_, _, _, _, _, _)
StampLoop(content, mem, p, fpos, n, rd) ==
    IF MemAt(mem, p) = 0
    THEN [diff |-> 0, iters |-> n - 1, last |-> p, open |-> 1, errs |-> 0]
    ELSE LET size == Fread(content, fpos, n, rd)
             buf  == [i \in 1..size |-> content[fpos + i]]
         IN  IF size = 0 /\ Ferror(n, rd)
             THEN [diff |-> -1, iters |-> n, last |-> p,
                   open |-> 1, errs |-> 1]
             ELSE LET diff == StampDiff(buf, size, mem, p)
                  IN  IF diff # 0
                      THEN [diff |-> diff, iters |-> n, last |-> p,
                            open |-> 1, errs |-> 0]
                      ELSE StampLoop(content, mem, p + STAMP_BUF_SIZE,
                                     fpos + size, n + 1, rd)

\* the fclose of a check_file_stamp whose read-error exit returns at once
CloseUnlessReadError(r) == IF r.diff = -1 THEN r ELSE [r EXCEPT !.open = @ - 1]

\* check_file_stamp leaving the function on a read error without fclose
check_file_stamp_LeakOnReadError(stampFile, mem, openOK, rd) ==
    IF ~stampFile.exists
    THEN [diff |-> -1, iters |-> 0, last |-> 0, open |-> 0, errs |-> 0]
    ELSE IF ~openOK
    THEN [diff |-> -1, iters |-> 0, last |-> 0, open |-> 0, errs |-> 1]
    ELSE CloseUnlessReadError(StampLoop(stampFile.content, mem, 1, 0, 1, rd))

\* check_file_stamp(file_name, stamp): 0 when the loop ends with diff = 0,
\* non-zero otherwise; -1 when the stamp file does not exist or cannot be
\* opened (which is logged).  Every exit of the loop goes through the
\* fclose of line 244.
check_file_stamp(stampFile, mem, openOK, rd) ==
    IF ~stampFile.exists
    THEN [diff |-> -1, iters |-> 0, last |-> 0, open |-> 0, errs |-> 0]
    ELSE IF ~openOK
    THEN [diff |-> -1, iters |-> 0, last |-> 0, open |-> 0, errs |-> 1]
    ELSE [StampLoop(stampFile.content, mem, 1, 0, 1, rd)
             EXCEPT !.open = @ - 1]

\* ------------------------------------------------------------------ state

VARIABLES
    curlInit,   \* the static CURL *curl is not NULL
    resumeOpt,  \* CURLOPT_RESUME_FROM as set on the handle (0 on a new one)
    cache,      \* the file at cache_location / dest
    stamp,      \* the file at <cache_location>.@stamp
    remote,     \* the resource at src: its version and its size
    last,       \* what the last step did, if it was a download
    tpc,        \* stamp-store specification: position
    ts,         \* stamp-store specification: the candidate string s
    ts2,        \* stamp-store specification: the written string s2
    ttail,      \* stamp-store specification: the memory after s
    tfile,      \* stamp-store specification: the stamp file
    tres,       \* stamp-store specification: result of check_file_stamp
    hpc,        \* header specification: position
    hline,      \* header specification: the size * nmemb bytes at ptr
    htail,      \* header specification: the memory after the line
    hprefix,    \* header specification: what char prefix[5] holds on entry
    hout        \* header specification: *out, the etag of the validator

\* no check_file_stamp result yet
NoResult == [diff |-> 2, iters |-> 0, last |-> 0, open |-> 0, errs |-> 0]

dlvars == <<curlInit, resumeOpt, cache, stamp, remote, last>>
stvars == <<tpc, ts, ts2, ttail, tfile, tres>>
hvars == <<hpc, hline, htail, hprefix, hout>>
vars == <<curlInit, resumeOpt, cache, stamp, remote, last,
          tpc, ts, ts2, ttail, tfile, tres,
          hpc, hline, htail, hprefix, hout>>

\* char *etag = NULL
NoEtag == [set |-> FALSE, marker |-> <<>>]

\* ------------------------------------------------------------- the remote

\* the versions of the resource at src
Versions == 1..NumVersions

\* the ETag of version v, quotes stripped (header_write never yields an
\* empty one): lengths 1, STAMP_BUF_SIZE and STAMP_BUF_SIZE + 1 in turn, so
\* that one marker is a strict prefix of another at a block boundary
MarkerOf(v) ==
    LET k == (v - 1) % 3
        c == 1 + ((v - 1) \div 3)
        n == IF k = 0 THEN 1 ELSE IF k = 1 THEN STAMP_BUF_SIZE
                                           ELSE STAMP_BUF_SIZE + 1
    IN  Str(n, 1, c)

\* byte i (1-based) of the body of version v
Body(v, i) == <<v, i>>

\* the memory after the strndup'ed etag, as the download specification
\* draws it
DlTails == { [i \in 1..STAMP_BUF_SIZE |-> 0], [i \in 1..STAMP_BUF_SIZE |-> 1] }

\* ------------------------------------------------------ cache validator

\* the outcomes of the environment during one opkg_validate_cached_file:
\* headOK      the metadata request succeeds
\* etag        the response carries a well-formed ETag (etag != NULL)
\* sizeKnown   the response reports a content length
\* tail        the memory after the etag string
\* stampRdOK   fopen(<stamp>, "rb") succeeds
\* rd          the read error of the stamp file, if any
\* stampWrOK   fopen(<stamp>, "wb") succeeds
\* cacheOpenOK fopen(cache_location, "ab") succeeds
VIn(h, e, k, t, ro, r, wo, co) ==
    [headOK |-> h, etag |-> e, sizeKnown |-> k, tail |-> t, stampRdOK |-> ro,
     rd |-> r, stampWrOK |-> wo, cacheOpenOK |-> co]

ZeroTail == [i \in 1..STAMP_BUF_SIZE |-> 0]

\* the outcomes that make a difference on cache file c, stamp file st and
\* remote rem: the tail, the read error and the failure to open when
\* check_file_stamp reads the stamp file, stampWrOK when create_file_stamp
\* is called
ValidateInputs(c, st, rem) ==
    { VIn(FALSE, FALSE, FALSE, ZeroTail, TRUE, NoReadError, TRUE, TRUE) }
    \cup { VIn(TRUE, FALSE, k, ZeroTail, TRUE, NoReadError, TRUE, co) :
             k \in BOOLEAN, co \in BOOLEAN }
    \cup UNION {
           { VIn(TRUE, TRUE, k, t, TRUE, rd, wo, co) :
               k \in BOOLEAN, co \in BOOLEAN,
               wo \in IF c.exists
                         /\ check_file_stamp(st, Mem(MarkerOf(rem.ver), t),
                                             TRUE, rd).diff = 0
                      THEN {TRUE} ELSE BOOLEAN } :
           t \in IF c.exists /\ st.exists THEN DlTails ELSE {ZeroTail},
           rd \in IF c.exists /\ st.exists
                  THEN {NoReadError, [blk |-> 1, got |-> 0]}
                  ELSE {NoReadError} }
    \cup { VIn(TRUE, TRUE, k, ZeroTail, FALSE, NoReadError, wo, co) :
             k \in BOOLEAN, co \in BOOLEAN,
             wo \in IF c.exists /\ st.exists THEN BOOLEAN ELSE {} }

\* every file operation of the validator succeeds
EnvOK(in) ==
    in.stampRdOK /\ in.rd = NoReadError /\ in.stampWrOK /\ in.cacheOpenOK

\* ValidateResume with the comparison off by one (resume_from <= src_size)
ValidateResume_OffByOne(c1, st1, res, src_size, openOK, did) ==
    LET c2          == IF c1.exists THEN c1 ELSE File(<<>>)
        resume_from == Len(c2.content)
        out(r, cc, rr) ==
            [ret |-> r, cache |-> cc, stamp |-> st1, resume |-> rr,
             match |-> did.match, unlinked |-> did.unlinked,
             stampCall |-> did.stampCall, stampRet |-> did.stampRet,
             src_size |-> src_size, open |-> did.open,
             errs |-> did.errs + (IF openOK THEN 0 ELSE 1), urlErrs |-> 0]
    IN  IF ~openOK THEN out(-1, c1, res)
        ELSE IF resume_from <= src_size THEN out(1, c2, resume_from)
        ELSE out(0, c2, res)

\* lines 296-311 of opkg_validate_cached_file: open the cache file for
\* append (which creates it), take its length as resume_from, and compare
\* it with src_size.  c1 and st1 are the files as lines 283-294 left them,
\* did what they did.  The file is closed (line 304) before the comparison;
\* a failed fopen is logged with the name of the cache file.
ValidateResume(c1, st1, res, src_size, openOK, did) ==
    LET c2          == IF c1.exists THEN c1 ELSE File(<<>>)
        resume_from == Len(c2.content)
        out(r, cc, rr) ==
            [ret |-> r, cache |-> cc, stamp |-> st1, resume |-> rr,
             match |-> did.match, unlinked |-> did.unlinked,
             stampCall |-> did.stampCall, stampRet |-> did.stampRet,
             src_size |-> src_size, open |-> did.open,
             errs |-> did.errs + (IF openOK THEN 0 ELSE 1), urlErrs |-> 0]
    IN  IF ~openOK THEN out(-1, c1, res)
        ELSE IF resume_from < src_size THEN out(1, c2, resume_from)
        ELSE out(0, c2, res)

\* ValidateStamp writing the stamp whenever there is an etag
ValidateStamp_AlwaysStamp(c, st, res, mem, src_size, in, match) ==
    LET unlinked  == c.exists /\ ~match
        stampCall == in.etag
        cs        == create_file_stamp(st, mem, in.stampWrOK)
    IN  ValidateResume(IF unlinked THEN NoFile ELSE c,
                       IF stampCall THEN cs.file ELSE st,
                       res, src_size, in.cacheOpenOK,
                       [match |-> match, unlinked |-> unlinked,
                        stampCall |-> stampCall,
                        stampRet |-> IF stampCall THEN cs.ret ELSE 0,
                        open |-> IF stampCall THEN cs.open ELSE 0,
                        errs |-> IF stampCall /\ cs.ret # 0
                                 THEN cs.errs + 1 ELSE 0])

\* ValidateStamp keeping the cache file when there is no etag
ValidateStamp_KeepNoEtag(c, st, res, mem, src_size, in, match) ==
    LET unlinked  == c.exists /\ in.etag /\ ~match
        stampCall == ~match /\ in.etag
        cs        == create_file_stamp(st, mem, in.stampWrOK)
    IN  ValidateResume(IF unlinked THEN NoFile ELSE c,
                       IF stampCall THEN cs.file ELSE st,
                       res, src_size, in.cacheOpenOK,
                       [match |-> match, unlinked |-> unlinked,
                        stampCall |-> stampCall,
                        stampRet |-> IF stampCall THEN cs.ret ELSE 0,
                        open |-> IF stampCall THEN cs.open ELSE 0,
                        errs |-> IF stampCall /\ cs.ret # 0
                                 THEN cs.errs + 1 ELSE 0])

\* lines 283-294 of opkg_validate_cached_file, given match: the cache file
\* is unlinked unless it matches, the stamp is written when there is no
\* match and there is an etag; a failure of create_file_stamp is logged a
\* second time (line 293)
ValidateStamp(c, st, res, mem, src_size, in, match) ==
    LET unlinked  == c.exists /\ ~match
        stampCall == ~match /\ in.etag
        cs        == create_file_stamp(st, mem, in.stampWrOK)
    IN  ValidateResume(IF unlinked THEN NoFile ELSE c,
                       IF stampCall THEN cs.file ELSE st,
                       res, src_size, in.cacheOpenOK,
                       [match |-> match, unlinked |-> unlinked,
                        stampCall |-> stampCall,
                        stampRet |-> IF stampCall THEN cs.ret ELSE 0,
                        open |-> IF stampCall THEN cs.open ELSE 0,
                        errs |-> IF stampCall /\ cs.ret # 0
                                 THEN cs.errs + 1 ELSE 0])

\* check_file_stamp was not called
NotChecked == [diff |-> -1, iters |-> 0, last |-> 0, open |-> 0, errs |-> 0]

\* lines 283-294 with the result chk of check_file_stamp (NotChecked when
\* the && of line 285 or the if of line 284 did not call it): match is
\* chk.diff = 0, and what check_file_stamp logged and left open counts
ValidateChecked(c, st, res, mem, src_size, in, chk) ==
    [ValidateStamp(c, st, res, mem, src_size, in, chk.diff = 0)
        EXCEPT !.open = @ + chk.open, !.errs = @ + chk.errs]

\* opkg_validate_cached_file going on after a failed metadata request (the
\* goto cleanup missing): etag is NULL and src_size is -1
opkg_validate_cached_file_NoGoto(c, st, res, rem, in) ==
    ValidateChecked(c, st, res, Mem(MarkerOf(rem.ver), in.tail),
                    IF in.headOK /\ in.sizeKnown THEN rem.size ELSE -1,
                    [in EXCEPT !.etag = in.headOK /\ in.etag],
                    IF c.exists /\ in.headOK /\ in.etag
                    THEN check_file_stamp(st, Mem(MarkerOf(rem.ver), in.tail),
                                          in.stampRdOK, in.rd)
                    ELSE NotChecked)

\* opkg_validate_cached_file(src, cache_location) on cache file c, stamp
\* file st, handle option CURLOPT_RESUME_FROM = res, remote rem, under the
\* outcomes in.  ret is the return value; cache, stamp, resume the state it
\* leaves; match, unlinked, stampCall, stampRet what it did on the way;
\* open the handles it leaves open, errs the ERROR lines it logged and
\* urlErrs those of them that name src (log_curl_download_error).
opkg_validate_cached_file(c, st, res, rem, in) ==
    IF ~in.headOK
    THEN [ret |-> -1, cache |-> c, stamp |-> st, resume |-> res,
          match |-> FALSE, unlinked |-> FALSE, stampCall |-> FALSE,
          stampRet |-> 0, src_size |-> -1,
          open |-> 0, errs |-> 1, urlErrs |-> 1]
    ELSE ValidateChecked(c, st, res, Mem(MarkerOf(rem.ver), in.tail),
                         IF in.sizeKnown THEN rem.size ELSE -1, in,
                         IF c.exists /\ in.etag
                         THEN check_file_stamp(st,
                                               Mem(MarkerOf(rem.ver), in.tail),
                                               in.stampRdOK, in.rd)
                         ELSE NotChecked)

\* ------------------------------------------------------- body transfer

\* the outcomes of the environment during the body transfer:
\* destOpenOK  fopen(dest, "ab") succeeds
\* ok          the transfer succeeds
\* k           the bytes the transfer delivers
BIn(d, o, k) == [destOpenOK |-> d, ok |-> o, k |-> k]

\* the bytes the remote has from offset off on
Avail(rem, off) == IF off < rem.size THEN rem.size - off ELSE 0

\* a transfer from offset off succeeds with all the bytes from off on (a
\* request from an offset at or past the end of a non-empty resource is
\* refused), or fails after any number of them
BodyInputs(rem, off) ==
    { BIn(FALSE, FALSE, 0) }
    \cup { BIn(TRUE, TRUE, Avail(rem, off)) : x \in
             IF off = 0 \/ off < rem.size THEN {0} ELSE {} }
    \cup { BIn(TRUE, FALSE, k) : k \in 0..Avail(rem, off) }

\* what perform_curl_request appends to the file opened for append
Appended(rem, off, k) == [i \in 1..k |-> Body(rem.ver, off + i)]

\* the record of a call: op, the return values (vret = 2: the validator was
\* not called), what the metadata request reported (headOK, etag, src_size),
\* whether every file operation of the validator succeeded (envOK) and
\* whether the memory after the etag string held non-zero bytes (garbage), the
\* files as the call found them (preExists, preLen, and preStampEq: the
\* stamp file held exactly the remote's marker), what the validator did
\* (match, unlinked, stampCall, stampRet), whether the call left the files
\* as they were (cacheSame, stampSame), whether a body transfer was issued,
\* from which offset, how many bytes it appended and how it ended, and
\* prevFail: the step before was a cached download whose metadata request
\* carried the marker and whose body transfer failed, and prevStampFail: the
\* download before (a change of the remote may lie in between) was a cached
\* one whose create_file_stamp failed; handles: the file handles the call
\* left open, errs: the ERROR lines it logged, urlErrs: those of them that
\* name the operation and src (log_curl_download_error)
NoCall ==
    [op |-> "none", ret |-> 0, vret |-> 2,
     headOK |-> TRUE, etag |-> FALSE, src_size |-> -1, envOK |-> TRUE,
     garbage |-> FALSE,
     preExists |-> FALSE, preLen |-> 0, preStampEq |-> FALSE,
     match |-> FALSE, unlinked |-> FALSE, stampCall |-> FALSE, stampRet |-> 0,
     cacheSame |-> TRUE, stampSame |-> TRUE,
     body |-> FALSE, bodyOff |-> 0, bodyOK |-> FALSE, appended |-> 0,
     prevFail |-> FALSE, prevStampFail |-> FALSE,
     handles |-> 0, errs |-> 0, urlErrs |-> 0]

StampEq(st, v) == st.exists /\ st.content = MarkerOf(v)

PrevFail == last.op = "cached" /\ last.etag /\ last.body /\ ~last.bodyOK

PrevStampFail ==
    \/ last.op = "cached" /\ last.stampCall /\ last.stampRet = -1
    \/ last.op = "remote" /\ last.prevStampFail

\* the state a call of opkg_download_backend leaves: the files, the handle
\* and the record of the call
Return(rec, c, st, res, init) ==
    /\ cache' = c
    /\ stamp' = st
    /\ resumeOpt' = res
    /\ curlInit' = init
    /\ last' = [rec EXCEPT !.cacheSame = (c = cache),
                           !.stampSame = (st = stamp),
                           !.preExists = cache.exists,
                           !.preLen = Len(cache.content),
                           !.preStampEq = StampEq(stamp, remote.ver),
                           !.prevFail = PrevFail,
                           !.prevStampFail = PrevStampFail]
    /\ UNCHANGED remote
    /\ UNCHANGED stvars
    /\ UNCHANGED hvars

\* Transfer removing the stamp file when the transfer fails
Transfer_DropStamp(rec, c, st, res) ==
    \E bin \in BodyInputs(remote, res) :
        IF ~bin.destOpenOK
        THEN Return([rec EXCEPT !.ret = -1, !.errs = @ + 1],
                    c, st, res, TRUE)
        ELSE LET c0 == IF c.exists THEN c ELSE File(<<>>)
                 c1 == File(c0.content \o Appended(remote, res, bin.k))
             IN  Return([rec EXCEPT !.ret = IF bin.ok THEN 0 ELSE -1,
                                    !.body = TRUE, !.bodyOff = res,
                                    !.bodyOK = bin.ok, !.appended = bin.k,
                                    !.errs = @ + (IF bin.ok THEN 0 ELSE 1),
                                    !.urlErrs = @ + (IF bin.ok THEN 0 ELSE 1)],
                        c1, IF bin.ok THEN st ELSE NoFile, res, TRUE)

\* the part of opkg_download_backend after the cache decision: open dest
\* for append (a failure is logged with the name of dest), perform the
\* request from the handle's resume offset, close the file (line 377, before
\* res is looked at), and log a failed transfer with src
Transfer(rec, c, st, res) ==
    \E bin \in BodyInputs(remote, res) :
        IF ~bin.destOpenOK
        THEN Return([rec EXCEPT !.ret = -1, !.errs = @ + 1],
                    c, st, res, TRUE)
        ELSE LET c0 == IF c.exists THEN c ELSE File(<<>>)
                 c1 == File(c0.content \o Appended(remote, res, bin.k))
             IN  Return([rec EXCEPT !.ret = IF bin.ok THEN 0 ELSE -1,
                                    !.body = TRUE, !.bodyOff = res,
                                    !.bodyOK = bin.ok, !.appended = bin.k,
                                    !.errs = @ + (IF bin.ok THEN 0 ELSE 1),
                                    !.urlErrs = @ + (IF bin.ok THEN 0 ELSE 1)],
                        c1, st, res, TRUE)

\* opkg_curl_init: the handle is created on first use, with no resume
\* offset; creating it can fail (curl_easy_init returns NULL), and then curl
\* stays NULL and opkg_download_backend returns -1 without an ERROR line
InitOutcomes == IF curlInit THEN {TRUE} ELSE BOOLEAN

\* opkg_download_backend(src, dest, cb, data, use_cache = 1)
DownloadCached ==
    \E initOK \in InitOutcomes :
        IF ~initOK
        THEN Return([NoCall EXCEPT !.op = "cached", !.ret = -1],
                    cache, stamp, resumeOpt, FALSE)
        ELSE \E vin \in ValidateInputs(cache, stamp, remote) :
             \E v \in {opkg_validate_cached_file(cache, stamp, resumeOpt,
                                                 remote, vin)} :
               LET rec == [NoCall EXCEPT !.op = "cached", !.vret = v.ret,
                                         !.ret = v.ret,
                                         !.headOK = vin.headOK,
                                         !.etag = vin.headOK /\ vin.etag,
                                         !.envOK = EnvOK(vin),
                                         !.garbage = (vin.tail # ZeroTail),
                                         !.src_size = v.src_size,
                                         !.match = v.match,
                                         !.unlinked = v.unlinked,
                                         !.stampCall = v.stampCall,
                                         !.stampRet = v.stampRet,
                                         !.handles = v.open,
                                         !.errs = v.errs,
                                         !.urlErrs = v.urlErrs]
               IN  IF v.ret <= 0
                   THEN Return(rec, v.cache, v.stamp, v.resume, TRUE)
                   ELSE Transfer(rec, v.cache, v.stamp, v.resume)

\* opkg_download_backend(src, dest, cb, data, use_cache = 0)
DownloadUncached ==
    \E initOK \in InitOutcomes :
        IF ~initOK
        THEN Return([NoCall EXCEPT !.op = "uncached", !.ret = -1],
                    cache, stamp, resumeOpt, FALSE)
        ELSE Transfer([NoCall EXCEPT !.op = "uncached",
                                     !.unlinked = cache.exists],
                      NoFile, stamp, resumeOpt)

\* opkg_download_cleanup
DownloadCleanup ==
    /\ curlInit
    /\ curlInit' = FALSE
    /\ resumeOpt' = 0
    /\ last' = [NoCall EXCEPT !.op = "cleanup"]
    /\ UNCHANGED <<cache, stamp, remote>>
    /\ UNCHANGED stvars
    /\ UNCHANGED hvars

\* between two calls the resource at src is replaced by another version or
\* changes its size
RemoteChange ==
    /\ \E v \in Versions, n \in 0..MaxSize :
          /\ [ver |-> v, size |-> n] # remote
          /\ remote' = [ver |-> v, size |-> n]
    /\ last' = [NoCall EXCEPT !.op = "remote",
                              !.prevStampFail = PrevStampFail]
    /\ UNCHANGED <<curlInit, resumeOpt, cache, stamp>>
    /\ UNCHANGED stvars
    /\ UNCHANGED hvars

Init ==
    /\ curlInit = FALSE
    /\ resumeOpt = 0
    /\ cache = NoFile
    /\ stamp = NoFile
    /\ remote = [ver |-> 1, size |-> MaxSize]
    /\ last = NoCall
    /\ tpc = "off"
    /\ ts = <<>>
    /\ ts2 = <<>>
    /\ ttail = ZeroTail
    /\ tfile = NoFile
    /\ tres = NoResult
    /\ hpc = "off"
    /\ hline = <<>>
    /\ htail = <<0>>
    /\ hprefix = <<0, 0, 0, 0, 0>>
    /\ hout = NoEtag

Next == DownloadCached \/ DownloadUncached \/ DownloadCleanup \/ RemoteChange

Spec == Init /\ [][Next]_vars

\* ------------------------------------------- stamp-store specification

StampInit ==
    /\ tpc = "start"
    /\ ts \in TestStrings
    /\ ts2 \in TestStrings
    /\ ttail \in Tails
    /\ tfile \in {NoFile, File(<<2>>)}
    /\ tres = NoResult
    /\ curlInit = FALSE
    /\ resumeOpt = 0
    /\ cache = NoFile
    /\ stamp = NoFile
    /\ remote = [ver |-> 1, size |-> 0]
    /\ last = NoCall
    /\ hpc = "off"
    /\ hline = <<>>
    /\ htail = <<0>>
    /\ hprefix = <<0, 0, 0, 0, 0>>
    /\ hout = NoEtag

\* create_file_stamp(p, s2); the memory after s2 is the same kind of tail
CreateStamp ==
    /\ tpc = "start"
    /\ \E openOK \in BOOLEAN :
          /\ tfile' = create_file_stamp(tfile, Mem(ts2, ttail), openOK).file
          /\ tpc' = IF openOK THEN "written" ELSE "writeFailed"
    /\ UNCHANGED <<ts, ts2, ttail, tres>>
    /\ UNCHANGED dlvars
    /\ UNCHANGED hvars

\* check_file_stamp(p, s) with every read succeeding
CheckStamp ==
    /\ tpc \in {"start", "written", "writeFailed"}
    /\ tres' = check_file_stamp(tfile, Mem(ts, ttail), TRUE, NoReadError)
    /\ tpc' = IF tpc = "written" THEN "checked" ELSE "checkedOnly"
    /\ UNCHANGED <<ts, ts2, ttail, tfile>>
    /\ UNCHANGED dlvars
    /\ UNCHANGED hvars

\* the read errors of the stamp-store specification: one of the first
\* three fread calls fails after delivering fewer bytes than asked for
ReadErrors ==
    { [blk |-> b, got |-> g] : b \in 1..3, g \in 0..(STAMP_BUF_SIZE - 1) }

\* check_file_stamp(p, s) on an existing stamp file that cannot be opened,
\* or of which a read fails (the failing fread is reached)
CheckStampFailing ==
    /\ tpc \in {"start", "written", "writeFailed"}
    /\ tfile.exists
    /\ \/ /\ tres' = check_file_stamp(tfile, Mem(ts, ttail), FALSE,
                                      NoReadError)
          /\ tpc' = "openFailed"
       \/ \E rd \in ReadErrors :
             \E r \in {check_file_stamp(tfile, Mem(ts, ttail), TRUE, rd)} :
                /\ r.iters >= rd.blk
                /\ tres' = r
                /\ tpc' = IF rd.got = 0 THEN "readFailed"
                                        ELSE "readFailedPartly"
    /\ UNCHANGED <<ts, ts2, ttail, tfile>>
    /\ UNCHANGED dlvars
    /\ UNCHANGED hvars

StampNext == CreateStamp \/ CheckStamp \/ CheckStampFailing

StampSpec == StampInit /\ [][StampNext]_vars

\* ----------------------------------------------------------- header_write

\* the quote character '"'
Quote == 34

\* the string "etag:"
EtagPrefix == <<101, 116, 97, 103, 58>>

\* tolower(c) on ASCII
Tolower(c) == IF c \in 65..90 THEN c + 32 ELSE c

\* strchr(mem + i - 1, c) for c # 0: the index of the first c before the
\* first 0 byte, 0 for NULL
RECURSIVE Strchr(_, _, _)
Strchr(mem, c, i) ==
    IF MemAt(mem, i) = c THEN i
    ELSE IF MemAt(mem, i) = 0 THEN 0
    ELSE Strchr(mem, c, i + 1)

\* strrchr(mem + i - 1, c) for c # 0: the index of the last c before the
\* first 0 byte, found being the last one seen so far and 0 NULL
RECURSIVE Strrchr(_, _, _, _)
Strrchr(mem, c, i, found) ==
    IF MemAt(mem, i) = 0 THEN found
    ELSE Strrchr(mem, c, i + 1, IF MemAt(mem, i) = c THEN i ELSE found)

\* header_write(ptr, size, nmemb, userdata): line is the size * nmemb bytes
\* at ptr, tail the memory after them (libcurl does not promise a
\* terminator there), garbage what the uninitialised prefix[5] holds, out
\* the value of *userdata.  prefix gets the lower-cased first bytes of the
\* line, at most five; it is compared with "etag:" over five bytes
\* (str_starts_with); strchr and strrchr scan from ptr to the first 0 byte.
\* Without a quote start is NULL + 1 and end is NULL, and end > start is
\* false.
header_write(line, tail, garbage, out) ==
    LET mem    == line \o tail
        prefix == [i \in 1..5 |-> IF i <= Len(line) THEN Tolower(line[i])
                                                      ELSE garbage[i]]
        first  == Strchr(mem, Quote, 1)
        end    == Strrchr(mem, Quote, 1, 0)
    IN  IF prefix # EtagPrefix THEN out
        ELSE IF first = 0 THEN out
        ELSE IF end > first + 1
        THEN [set |-> TRUE,
              marker |-> [i \in 1..(end - first - 1) |-> mem[first + i]]]
        ELSE out

\* the field-name parts of the header lines: "etag:", "ETag:", "etag",
\* "e", "date:" and none
HeaderNames ==
    { EtagPrefix, <<69, 84, 97, 103, 58>>, <<101, 116, 97, 103>>, <<101>>,
      <<100, 97, 116, 101, 58>>, <<>> }

\* the value parts: up to MaxValueLen characters, each a quote or an x
HeaderValues == UNION { [1..n -> {Quote, 120}] : n \in 0..MaxValueLen }

\* the memory after a line: a terminator, or bytes of the receive buffer
\* that hold quotes
HeaderTails == { <<0>>, <<Quote, 120, Quote, 0>>, <<120, Quote, 0>> }

\* what prefix[5] holds on entry: zeroes, or what an earlier call left
PrefixGarbage == { <<0, 0, 0, 0, 0>>, EtagPrefix }

HeaderInit ==
    /\ hpc = "start"
    /\ \E n \in HeaderNames, v \in HeaderValues :
          /\ Len(n) + Len(v) >= 1
          /\ hline = n \o v
    /\ htail \in HeaderTails
    /\ hprefix \in PrefixGarbage
    /\ hout = NoEtag
    /\ tpc = "off"
    /\ ts = <<>>
    /\ ts2 = <<>>
    /\ ttail = ZeroTail
    /\ tfile = NoFile
    /\ tres = NoResult
    /\ curlInit = FALSE
    /\ resumeOpt = 0
    /\ cache = NoFile
    /\ stamp = NoFile
    /\ remote = [ver |-> 1, size |-> 0]
    /\ last = NoCall

\* libcurl calls header_write with one header line
HeaderWrite ==
    /\ hpc = "start"
    /\ hout' = header_write(hline, htail, hprefix, hout)
    /\ hpc' = "done"
    /\ UNCHANGED <<hline, htail, hprefix>>
    /\ UNCHANGED dlvars
    /\ UNCHANGED stvars

HeaderNext == HeaderWrite

HeaderSpec == HeaderInit /\ [][HeaderNext]_vars

\* ------------------------------------------------------------- claims

\* C4: after create_file_stamp(p, s2) succeeded, check_file_stamp(p, s) with
\* s # s2 reports a mismatch (non-zero).
C4_MismatchDetected ==
    (tpc = "checked" /\ ts # ts2) => tres.diff # 0

\* C5: after create_file_stamp(p, s) succeeded, check_file_stamp(p, s)
\* returns 0, whatever memory follows the terminator of s.
C5_RoundTrip ==
    (tpc = "checked" /\ ts = ts2) => tres.diff = 0

\* the last step was a cached download that called the validator
Cached == last.op = "cached" /\ last.vret # 2

\* ... and its metadata request and every file operation succeeded
CachedOK == Cached /\ last.headOK /\ last.envOK

\* C1: when the cache file exists and its stamp does not match the fetched
\* marker, the validator deletes the cache file, writes the marker as the
\* stamp and returns 1 with resume offset 0, whatever the local length and
\* the remote size.
C1_StaleRestarts ==
    (CachedOK /\ last.etag /\ last.preExists /\ ~last.preStampEq)
        => /\ last.unlinked
           /\ StampEq(stamp, remote.ver)
           /\ last.vret = 1
           /\ resumeOpt = 0

C3_UnknownSizeNeverComplete ==
    (CachedOK /\ last.src_size = -1) => last.vret = 1

C7_ResumeAfterFailure ==
    /\ (Cached /\ last.body /\ ~last.bodyOK)
           => /\ last.ret = -1
              /\ Len(cache.content) = last.bodyOff + last.appended
    /\ (CachedOK /\ last.prevFail /\ last.etag /\ last.preStampEq
                 /\ last.src_size > last.preLen)
           => /\ (last.unlinked => last.preLen = 0)
              /\ last.vret = 1
              /\ resumeOpt = last.preLen

\* C8: whenever the validator returns 0, the cache file's length equals the
\* reported remote size and the stamp file holds the reported marker.
C8_CompleteMeansEqual ==
    (CachedOK /\ last.vret = 0)
        => /\ Len(cache.content) = last.src_size
           /\ (last.etag => StampEq(stamp, remote.ver))

\* C9 as claimed: when the metadata response carries no marker and a cache
\* file exists, the validator neither deletes the cache file nor writes the
\* stamp, and computes the plan from the existing local length.
C9_NoMarkerKeepsFile ==
    (CachedOK /\ ~last.etag /\ last.preExists)
        => /\ ~last.unlinked
           /\ last.stampSame
           /\ last.vret = (IF last.preLen < last.src_size THEN 1 ELSE 0)
           /\ (last.vret = 1 => resumeOpt = last.preLen)

\* C9 as amended: when the metadata response carries no marker and a cache
\* file exists, the validator deletes the cache file, does not write the
\* stamp file, and computes the plan from local length 0.
C9_NoMarkerDeletesFile ==
    (Cached /\ last.headOK /\ ~last.etag /\ last.preExists)
        => /\ last.unlinked
           /\ ~last.stampCall
           /\ last.stampSame
           /\ last.envOK =>
                 /\ last.vret = (IF 0 < last.src_size THEN 1 ELSE 0)
                 /\ (last.vret = 1 => resumeOpt = 0)
                 /\ (last.body => last.bodyOff = 0)

\* C9: a non-empty cache file met a response without a marker, and the
\* transfer restarted
C9_Witness ==
    /\ CachedOK /\ ~last.etag /\ last.preExists /\ last.preLen >= 1
    /\ last.vret = 1 /\ last.body

\* the call wrote the stamp file
StampWritten == last.stampCall /\ last.stampRet = 0

\* C10 as claimed: the stamp file is written only inside the validator and
\* only in a call where the stamp on disk does not hold the current marker
\* (or the validator compared it and found a mismatch); the body transfer
\* never changes it.
C10_StampOnlyOnMismatch ==
    /\ (~last.stampSame => (Cached /\ StampWritten))
    /\ StampWritten =>
          \/ ~last.preStampEq
          \/ (last.preExists /\ last.etag /\ ~last.match)

\* C10 as amended: the stamp file is written only inside the validator and
\* only in a call that obtained a marker and did not find the cache fresh:
\* there is no cache file (the stamp on disk is then not compared and may
\* already hold the marker) or check_file_stamp reported a mismatch; the
\* body transfer never changes it.
C10_StampOnlyWhenNotFresh ==
    /\ (~last.stampSame => (Cached /\ StampWritten))
    /\ last.stampCall => (Cached /\ last.headOK /\ last.etag /\ ~last.match)
    /\ StampWritten => StampEq(stamp, remote.ver)

\* C10: a stamp that already held the marker was written again because
\* there was no cache file, and a body transfer followed
C10_Witness ==
    /\ Cached /\ StampWritten /\ last.preStampEq /\ ~last.preExists
    /\ last.body /\ last.stampSame

\* the whole body of the remote's current version
RemoteBody == [i \in 1..remote.size |-> Body(remote.ver, i)]

\* C11: from a state with no cache file, a cached download for which the
\* remote reports a definite size R > 0 and marker m, and whose stamp write
\* and body transfer succeed, requests the body from offset 0 and ends with
\* the local file holding exactly the R bytes and the stamp file holding
\* exactly m, without a trailing delimiter.
C11_FullFetch ==
    (Cached /\ last.headOK /\ ~last.preExists /\ last.etag
            /\ last.src_size > 0 /\ StampWritten /\ last.body /\ last.bodyOK)
        => /\ last.vret = 1
           /\ last.ret = 0
           /\ last.bodyOff = 0
           /\ Len(cache.content) = last.src_size
           /\ cache = File(RemoteBody)
           /\ stamp = File(MarkerOf(remote.ver))

\* C11: a full fetch of a resource of at least two bytes took place
C11_Witness ==
    /\ Cached /\ last.headOK /\ ~last.preExists /\ last.etag
    /\ last.src_size >= 2 /\ StampWritten /\ last.body /\ last.bodyOK
    /\ last.ret = 0

\* C12: if the metadata request fails, the validator returns -1, the
\* download returns -1 without a body transfer, and the cache file and the
\* stamp file are left as they were: nothing deleted, created or written.
C12_MetadataFailure ==
    (Cached /\ ~last.headOK)
        => /\ last.vret = -1
           /\ last.ret = -1
           /\ ~last.body
           /\ ~last.unlinked
           /\ ~last.stampCall
           /\ last.cacheSame
           /\ last.stampSame

\* C12: the metadata request failed with a non-empty cache file and a stamp
\* file in place
C12_Witness ==
    /\ Cached /\ ~last.headOK /\ last.ret = -1
    /\ last.preExists /\ last.preLen >= 1 /\ stamp.exists

\* the cache file's bytes are the first bytes of the remote's current version
CachePrefix ==
    \A i \in 1..Len(cache.content) : cache.content[i] = Body(remote.ver, i)

\* C13: a failure of create_file_stamp during validation is not fatal: the
\* plan and the return value are what they would be had the write succeeded,
\* and the body transfer proceeds; and the next validation does not find the
\* cache fresh (it is let pass when the stamp file already holds the marker
\* and the file's bytes are the remote's).
C13_StampFailureNotFatal ==
    /\ \A vin \in ValidateInputs(cache, stamp, remote) :
          (vin.headOK /\ ~vin.stampWrOK) =>
              LET a == opkg_validate_cached_file(cache, stamp, resumeOpt,
                                                 remote, vin)
                  b == opkg_validate_cached_file(
                           cache, stamp, resumeOpt, remote,
                           [vin EXCEPT !.stampWrOK = TRUE])
              IN  /\ a.ret = b.ret
                  /\ a.resume = b.resume
                  /\ a.cache = b.cache
    /\ (Cached /\ last.stampCall /\ last.stampRet = -1 /\ last.vret = 1)
          => (last.body \/ last.ret = -1)
    /\ (CachedOK /\ last.prevStampFail /\ last.etag
                 /\ last.preExists /\ last.match)
          => (last.preStampEq /\ CachePrefix)

\* the last step was a call of opkg_download_backend
Download == last.op \in {"cached", "uncached"}

C15_FailureIsMismatch ==
    /\ (tpc \in {"checked", "checkedOnly"} /\ ~tfile.exists)
           => tres.diff # 0
    /\ (tpc \in {"openFailed", "readFailed", "readFailedPartly"})
           => tres.diff # 0

\* C19: in check_file_stamp the loop never reads the candidate beyond its
\* terminator (index len(stamp), counted from 0), and it ends after at most
\* ceil(len(stamp) / STAMP_BUF_SIZE) iterations.
C19_NoOverRead ==
    (tpc \in {"checked", "checkedOnly"} /\ tfile.exists)
        => /\ tres.last <= Len(ts) + 1
           /\ tres.iters * STAMP_BUF_SIZE < Len(ts) + STAMP_BUF_SIZE

\* C16: every call of opkg_download_backend that returns -1 has emitted
\* exactly one ERROR line, and that line names the operation and contains
\* the src URL.
C16_OneLogPerFailure ==
    (Download /\ last.ret = -1)
        => /\ last.errs = 1
           /\ last.urlErrs = 1

\* C17: every body transfer is issued with the start offset equal to the
\* length of the destination file when it is opened for append; a download
\* with use_cache unset requests the body from offset 0.
C17_OffsetIsFileLength ==
    (Download /\ last.body)
        => /\ last.bodyOff = Len(cache.content) - last.appended
           /\ (last.op = "uncached" => last.bodyOff = 0)

\* C18: whenever a validation finds the cache fresh, the stamp file holding
\* the current marker, the bytes the cache file held are the first bytes of
\* the remote's current content.
C18_CacheCoherence ==
    (CachedOK /\ last.match /\ last.preStampEq)
        => \A i \in 1..last.preLen : cache.content[i] = Body(remote.ver, i)

\* the positions of the quote characters of a line
QuoteIdx(line) == { i \in 1..Len(line) : line[i] = Quote }

\* the first five characters of the line are "etag:", case-insensitively,
\* and there is at least one character between its first and last quote
WellFormedEtag(line) ==
    /\ Len(line) >= 5
    /\ \A i \in 1..5 : Tolower(line[i]) = EtagPrefix[i]
    /\ \E i, j \in QuoteIdx(line) : j > i + 1

\* the text between the first and the last quote of a line
Quoted(line) ==
    LET i == CHOOSE k \in QuoteIdx(line) : \A m \in QuoteIdx(line) : k <= m
        j == CHOOSE k \in QuoteIdx(line) : \A m \in QuoteIdx(line) : k >= m
    IN  SubSeq(line, i + 1, j - 1)

\* C20: header_write sets the marker only if the first five characters of
\* the line are "etag:", case-insensitively, and there is at least one
\* character between the line's first and last quote; the marker is then
\* the text between them.  In every other case the marker stays absent, and
\* a marker that is set is never empty.
C20_MarkerExtraction ==
    hpc = "done" =>
        /\ IF WellFormedEtag(hline)
           THEN hout = [set |-> TRUE, marker |-> Quoted(hline)]
           ELSE hout = NoEtag
        /\ (hout.set => hout.marker # <<>>)

====
